---- MODULE Spec2Model ----
(***************************************************************************)
(* Link-reconciliation engine of scripts/manage-skills.py: install,        *)
(* uninstall and status over the two asset groups (skills, commands).      *)
(* The filesystem is the shared state; one invocation of the tool runs at  *)
(* a time and is modelled step by step (one step per probe, prompt and     *)
(* filesystem mutation).                                                   *)
(***************************************************************************)
EXTENDS Integers, Sequences, FiniteSets, TLC

\* ------------------------------------------------------------------------
\* Bounds and universes
\* ------------------------------------------------------------------------
\* number of successive invocations of the tool in one behaviour
MaxRuns == 2

\* get_paths(): the two asset groups, in the order cmd_* processes them
Groups == <<"skills", "commands">>
G == {"skills", "commands"}

\* entry names that may exist under each source root
Names ==
  [g \in G |-> IF g = "skills" THEN {"alpha", "beta"}
               ELSE {"README.md", "plan.md", "readme.md"}]

AllNames == Names["skills"] \cup Names["commands"]

\* position of a name in Python's ordering of the paths (str comparison)
Rank ==
  [n \in AllNames |->
     CASE n = "README.md" -> 1
       [] n = "alpha"     -> 2
       [] n = "beta"      -> 3
       [] n = "plan.md"   -> 4
       [] n = "readme.md" -> 5]

\* suffix of a name, as glob("*.md") sees it
Suffix ==
  [n \in AllNames |-> IF n \in Names["commands"] THEN ".md" ELSE ""]

\* ------------------------------------------------------------------------
\* Filesystem values
\* ------------------------------------------------------------------------
\* what a link may point at: the entry's source, another existing path,
\* a path that does not exist, or a chain of links that never ends
SrcPath(g, n) == <<"src", g, n>>
ElsewherePath == <<"elsewhere">>
MissingPath   == <<"missing">>
LoopPath      == <<"loop">>

Absent   == [kind |-> "absent", target |-> <<>>]
Occupied == [kind |-> "file",   target |-> <<>>]
Link(t)  == [kind |-> "link",   target |-> t]

DestStates(g, n) ==
  {Absent, Occupied, Link(SrcPath(g, n)), Link(ElsewherePath),
   Link(MissingPath), Link(LoopPath)}

VARIABLES
  srcRoot,      \* [G -> BOOLEAN]  the source root exists
  src,          \* [g -> [Names[g] -> kind]]  entries of the source root
  destRoot,     \* [G -> BOOLEAN]  the destination root exists
  dest,         \* [g -> [Names[g] -> DestStates]]  destination entries
  osDeny,       \* which mutation the OS refuses: "none", "create", "unlink"
  loopRaises,   \* the interpreter's resolve() raises on a link loop
  cmd,          \* subcommand of the current invocation
  interactive,  \* not args.yes
  pc,           \* position of the invocation in the code
  gi,           \* index in Groups of the function being executed
  todo,         \* remaining items of the loop's sorted listing
  count,        \* the two local counters of the running function
  result,       \* [G -> tuple returned by the function, or <<>>]
  last,         \* the loop variable: the entry taken last from the listing
  typed,        \* the line the operator typed at the last prompt
  response,     \* input(...).strip().lower()
  exc,          \* uncaught exception that ended the invocation
  outcome,      \* per-entry outcome of the current invocation
  probed,       \* per-entry destination state seen by the probe
  decision,     \* per-entry answer class at the replace prompt
  startDest,    \* destination entries when the invocation started
  startRoot,    \* destination roots when the invocation started
  prev,         \* record of the previous invocation
  runs,         \* invocations started so far
  ref,          \* record of a run kept as reference for later runs
  peer,         \* a second invocation in progress: its saved position
  fetch         \* one run of a fetch script (calendar_brief, mail_brief)

vars    == <<srcRoot, src, destRoot, dest, osDeny, loopRaises,
             cmd, interactive, pc, gi, todo, last, count, result, typed,
             response, exc, outcome, probed, decision, startDest, startRoot,
             prev, runs, ref, peer, fetch>>

\* the variables of manage-skills.py, which the fetch scripts leave alone
toolVars == <<srcRoot, src, destRoot, dest, osDeny, loopRaises,
              cmd, interactive, pc, gi, todo, last, count, result, typed,
              response, exc, outcome, probed, decision, startDest, startRoot,
              prev, runs, ref, peer>>


\* ------------------------------------------------------------------------
\* Pure helpers
\* ------------------------------------------------------------------------
NoEntries == [g \in G |-> [n \in Names[g] |-> "none"]]
NoProbes  == [g \in G |-> [n \in Names[g] |-> [kind |-> "none", target |-> <<>>]]]
NoResults == [g \in G |-> <<>>]
NoLine    == <<"-">>
EOF       == <<"EOF">>

\* variant: the listing in descending order (sorted(..., reverse=True))
RECURSIVE Sorted_Descending(_)
Sorted_Descending(S) ==
  IF S = {} THEN <<>>
  ELSE LET m == CHOOSE x \in S : \A y \in S : Rank[x] >= Rank[y]
       IN  <<m>> \o Sorted_Descending(S \ {m})

\* sorted(...): ascending sequence of the names in S
RECURSIVE Sorted(_)
Sorted(S) ==
  IF S = {} THEN <<>>
  ELSE LET m == CHOOSE x \in S : \A y \in S : Rank[x] <= Rank[y]
       IN  <<m>> \o Sorted(S \ {m})

\* skills_src.iterdir(): every entry of the skills source root
IterDir(g) == {n \in Names[g] : src[g][n] # "none"}

\* commands_src.glob("*.md"): entries whose name ends in .md; a missing
\* directory yields nothing
Glob(g) == IF srcRoot[g] THEN {n \in Names[g] : src[g][n] # "none" /\ Suffix[n] = ".md"}
           ELSE {}

\* variant: only a directory holding SKILL.md is taken for a directory
is_dir_ValidOnly(g, n) == src[g][n] = "skill"

\* skill_dir.is_dir()
is_dir(g, n) == src[g][n] \in {"skill", "dir"}

\* variant: every directory of the skills source counts as a skill
is_valid_skill_AnyDir(g, n) == is_dir(g, n)

\* is_valid_skill: the directory holds SKILL.md
is_valid_skill(g, n) == src[g][n] = "skill"

\* variant: any existing entry is taken for a link (lexists for islink)
is_symlink_AnyEntry(d) == d.kind # "absent"

\* Path.is_symlink()
is_symlink(d) == d.kind = "link"

\* variant: the test is made on the destination root, which exists
exists_OfRoot(d) == TRUE

\* Path.exists(): follows links; dangling links and loops do not exist
exists(d) ==
  \/ d.kind = "file"
  \/ d.kind = "link" /\ d.target \notin {MissingPath, LoopPath}

\* Path.resolve() of a destination entry: the canonical target, or the
\* RuntimeError that pathlib raises on a link loop before Python 3.13
\* (from 3.13 on the unresolved path is returned)
resolve(d) ==
  IF d.kind = "link" /\ d.target = LoopPath
    THEN (IF loopRaises THEN <<"RuntimeError">> ELSE <<"unresolved">>)
  ELSE IF d.kind = "link" THEN d.target
  ELSE <<"self">>

\* variant: the link's resolved target is compared with the entry's name
\* instead of its resolved source path, so no link is ever recognised
is_our_symlink_NeverOurs(d, g, n) ==
  IF ~is_symlink(d) THEN "False"
  ELSE IF resolve(d) = <<"RuntimeError">> THEN "RuntimeError"
  ELSE IF resolve(d) = <<n>> THEN "True"
  ELSE "False"

\* is_our_symlink(link_path, target_path) for the destination entry d of
\* entry n; only OSError is caught, so a RuntimeError propagates
is_our_symlink(d, g, n) ==
  IF ~is_symlink(d) THEN "False"
  ELSE IF resolve(d) = <<"RuntimeError">> THEN "RuntimeError"
  ELSE IF resolve(d) = SrcPath(g, n) THEN "True"
  ELSE "False"

\* str.strip(): drop leading and trailing blanks
RECURSIVE LStrip(_)
LStrip(s) == IF s # <<>> /\ Head(s) = " " THEN LStrip(Tail(s)) ELSE s
RECURSIVE RStrip(_)
RStrip(s) ==
  IF s # <<>> /\ s[Len(s)] = " " THEN RStrip(SubSeq(s, 1, Len(s) - 1)) ELSE s
strip(s) == RStrip(LStrip(s))

\* str.lower()
LowerChar(c) == IF c = "Y" THEN "y" ELSE IF c = "N" THEN "n" ELSE c
\* a comparison that keeps the case of the answer
lower_KeepsCase(s) == s

lower(s) == [i \in 1..Len(s) |-> LowerChar(s[i])]

\* lines an operator may type at the prompt (end of input is separate)
Inputs ==
  {<<"y">>, <<"Y">>, <<" ", "y", " ">>, <<"n">>, <<>>, <<"y", "e", "s">>}

\* response == "y"
IsAffirmative(resp) == resp = <<"y">>

\* variant: the reserved name is matched without regard to case, so the
\* listing holds neither README.md nor readme.md
Listing_AnyCaseReserved(g) ==
  IF g = "skills" THEN Sorted(IterDir(g))
  ELSE Sorted(Glob(g) \ {"README.md", "readme.md"})

\* the catalog each function iterates, after sorted()
Listing(g) ==
  IF g = "skills" THEN Sorted(IterDir(g)) ELSE Sorted(Glob(g))

Set(f, g, n, v) == [f EXCEPT ![g][n] = v]


\* ------------------------------------------------------------------------
\* Initial states: a repository checkout and a home directory
\* ------------------------------------------------------------------------
\* kinds an entry of a source root may have
SrcKinds(g, n) ==
  IF g = "skills" THEN (IF n = "alpha" THEN {"skill"} ELSE {"skill", "dir"})
  ELSE {"file"}

\* destination states an entry starts in: every state for alpha, the
\* resolvable ones for the others, and for README.md only what a user
\* could have left there by hand
InitDest(g, n) ==
  CASE n = "alpha"     -> DestStates(g, n)
    [] n = "README.md" -> {Absent, Link(SrcPath(g, n))}
    [] OTHER           -> {Absent, Occupied, Link(SrcPath(g, n)), Link(ElsewherePath)}

\* the trees manage-skills.py works on, and no invocation yet; T is the
\* set of file names that the commands directories may hold
ToolInitOn(T) ==
  /\ srcRoot \in [G -> BOOLEAN]
  /\ src \in [skills : [Names["skills"] -> {"none", "skill", "dir"}],
              commands : [Names["commands"] -> {"none", "file"}]]
  /\ \A g \in G : \A n \in Names[g] :
       src[g][n] \in (IF srcRoot[g] /\ n \in Names["skills"] \cup T
                        THEN SrcKinds(g, n) ELSE {"none"})
  /\ destRoot \in [G -> BOOLEAN]
  /\ dest \in [skills : [Names["skills"] -> DestStates("skills", "alpha") \cup InitDest("skills", "beta")],
               commands : [Names["commands"] ->
                            UNION {InitDest("commands", n) : n \in Names["commands"]}]]
  /\ \A g \in G : \A n \in Names[g] :
       dest[g][n] \in (IF destRoot[g] /\ srcRoot[g] THEN InitDest(g, n) ELSE {Absent})
  /\ \A n \in Names["commands"] \ T :
       src["commands"][n] = "none" /\ dest["commands"][n] = Absent
  /\ osDeny \in {"none", "create", "unlink"}
  /\ loopRaises \in BOOLEAN
  /\ (\A g \in G : \A n \in Names[g] : dest[g][n] # Link(LoopPath)) => loopRaises
  /\ cmd = "none" /\ interactive = FALSE /\ pc = "idle" /\ gi = 1
  /\ todo = <<>> /\ last = "none" /\ count = <<0, 0>> /\ result = NoResults
  /\ typed = NoLine /\ response = NoLine /\ exc = "none"
  /\ outcome = NoEntries /\ probed = NoProbes /\ decision = NoEntries
  /\ startDest = dest /\ startRoot = destRoot
  /\ prev = [cmd |-> "none", interactive |-> FALSE, pc |-> "idle",
             outcome |-> NoEntries, decision |-> NoEntries,
             result |-> NoResults, startDest |-> dest, startRoot |-> destRoot]
  /\ runs = 0
  /\ ref = [cmd |-> "none", interactive |-> FALSE, pc |-> "idle",
            exc |-> "none", gi |-> 1, last |-> "none",
            decision |-> NoEntries, outcome |-> NoEntries,
            dest |-> dest, destRoot |-> destRoot]
  /\ peer = [id |-> "none", cmd |-> "none", interactive |-> FALSE,
             pc |-> "idle", gi |-> 1, todo |-> <<>>, last |-> "none",
             count |-> <<0, 0>>, result |-> NoResults, typed |-> NoLine,
             response |-> NoLine, exc |-> "none", outcome |-> NoEntries,
             probed |-> NoProbes, decision |-> NoEntries,
             startDest |-> dest, startRoot |-> destRoot]

\* the repository's commands directory: its README.md and command files
ToolInit == ToolInitOn({"README.md", "plan.md"})

\* no fetch script is running
FetchIdle ==
  [script |-> "none", pc |-> "exit", personal |-> FALSE, work |-> FALSE,
   discovered |-> <<>>, naver |-> FALSE, naver_user |-> FALSE,
   imap_accounts |-> <<>>, accounts |-> <<>>, info |-> <<>>, data |-> <<>>,
   errors |-> <<>>, res |-> <<>>, i |-> 1, out |-> <<>>, exit |-> -1]

Init == ToolInit /\ fetch = FetchIdle

\* ------------------------------------------------------------------------
\* main(): one invocation of the tool
\* ------------------------------------------------------------------------
Cur == Groups[gi]

\* a fresh process enters the function of subcommand c; the record of
\* the run that just ended is kept for comparison
Fresh(c, i) ==
  /\ runs' = runs + 1
  /\ cmd' = c /\ interactive' = i
  /\ pc' = "begin" /\ gi' = 1
  /\ todo' = <<>> /\ last' = "none" /\ count' = <<0, 0>> /\ result' = NoResults
  /\ typed' = NoLine /\ response' = NoLine /\ exc' = "none"
  /\ outcome' = NoEntries /\ probed' = NoProbes /\ decision' = NoEntries
  /\ prev' = [cmd |-> cmd, interactive |-> interactive, pc |-> pc,
              outcome |-> outcome, decision |-> decision, result |-> result,
              startDest |-> startDest, startRoot |-> startRoot]

\* args.func(args) for a parsed subcommand, on the file system as it is
Dispatch(c, i) ==
  /\ Fresh(c, i)
  /\ startDest' = dest /\ startRoot' = destRoot
  /\ UNCHANGED <<srcRoot, src, destRoot, dest, osDeny, loopRaises, ref, peer, fetch>>

\* an invocation with a subcommand, once the previous one has ended
Invoke(c, i) ==
  /\ pc \in {"idle", "done", "raised", "usage"}
  /\ runs < MaxRuns
  /\ Dispatch(c, i)

\* no subcommand: parser.print_help() and sys.exit(1)
main_usage ==
  /\ pc \in {"idle", "done", "raised", "usage"}
  /\ runs < MaxRuns
  /\ runs' = runs + 1
  /\ cmd' = "none" /\ interactive' = FALSE
  /\ pc' = "usage" /\ gi' = 1
  /\ todo' = <<>> /\ last' = "none" /\ count' = <<0, 0>> /\ result' = NoResults
  /\ typed' = NoLine /\ response' = NoLine /\ exc' = "none"
  /\ outcome' = NoEntries /\ probed' = NoProbes /\ decision' = NoEntries
  /\ startDest' = dest /\ startRoot' = destRoot
  /\ prev' = [cmd |-> cmd, interactive |-> interactive, pc |-> pc,
              outcome |-> outcome, decision |-> decision, result |-> result,
              startDest |-> startDest, startRoot |-> startRoot]
  /\ UNCHANGED <<srcRoot, src, destRoot, dest, osDeny, loopRaises, ref, peer, fetch>>

\* the exit status of the process: 0 when main() returns, 1 after
\* sys.exit(1) and after an uncaught exception; -1 while it runs
ExitCode ==
  CASE pc = "done" -> 0
    [] pc \in {"raised", "usage"} -> 1
    [] OTHER -> -1

cmd_install   == \E i \in BOOLEAN : Invoke("install", i)
cmd_uninstall == Invoke("uninstall", FALSE)
cmd_status    == Invoke("status", FALSE)

\* the function returns its two counters; the caller goes on with the
\* next group or finishes
Return(c) ==
  /\ result' = [result EXCEPT ![Cur] = c]
  /\ IF gi < Len(Groups)
       THEN pc' = "begin" /\ gi' = gi + 1
       ELSE pc' = "done" /\ gi' = gi
  /\ todo' = <<>> /\ count' = <<0, 0>>

\* an exception nobody catches ends the invocation with a traceback
Raise(e) ==
  /\ pc' = "raised" /\ exc' = e

\* the entry is settled: record its outcome and the counters, next entry
Record(n, o, c) ==
  /\ outcome' = Set(outcome, Cur, n, o)
  /\ count' = c
  /\ pc' = "loop"

Inc1 == <<count[1] + 1, count[2]>>
Inc2 == <<count[1], count[2] + 1>>


\* ------------------------------------------------------------------------
\* install_skills / install_commands
\* ------------------------------------------------------------------------
\* up to the loop header: missing source root returns (0, 0); otherwise
\* the destination root is created and the sorted listing is taken
InstallBegin ==
  /\ cmd = "install" /\ pc = "begin"
  /\ IF ~srcRoot[Cur]
       THEN /\ Return(<<0, 0>>)
            /\ UNCHANGED destRoot
       ELSE /\ destRoot' = [destRoot EXCEPT ![Cur] = TRUE]
            /\ todo' = Listing(Cur)
            /\ count' = <<0, 0>> /\ pc' = "loop"
            /\ UNCHANGED <<gi, result>>
  /\ UNCHANGED <<srcRoot, src, dest, osDeny, loopRaises, cmd, interactive, last, typed,
                 response, exc, outcome, probed, decision, startDest, startRoot, prev, runs, ref, peer, fetch>>

\* variant: --yes is taken for the answer y, so an unattended run goes
\* on to replace a link that points elsewhere
InstallSkillsEntry_YesReplaces ==
  /\ cmd = "install" /\ pc = "loop" /\ Cur = "skills" /\ todo # <<>>
  /\ LET n == Head(todo)
         d == dest["skills"][n]
     IN  /\ last' = n /\ todo' = Tail(todo)
         /\ typed' = NoLine /\ response' = NoLine
         /\ IF ~is_dir("skills", n)
              THEN UNCHANGED <<pc, exc, count, outcome, probed>>
            ELSE IF ~is_valid_skill("skills", n)
              THEN Record(n, "Invalid", Inc2) /\ UNCHANGED <<exc, probed>>
            ELSE LET ours == is_our_symlink(d, "skills", n) IN
                   /\ probed' = Set(probed, "skills", n, d)
                   /\ IF ours = "RuntimeError"
                        THEN Raise("RuntimeError") /\ UNCHANGED <<count, outcome>>
                      ELSE IF ours = "True"
                        THEN Record(n, "AlreadyInstalled", Inc1) /\ UNCHANGED exc
                      ELSE IF is_symlink(d)
                        THEN IF interactive
                               THEN pc' = "prompt" /\ UNCHANGED <<exc, count, outcome>>
                               ELSE pc' = "unlink" /\ UNCHANGED <<exc, count, outcome>>
                      ELSE IF exists(d)
                        THEN Record(n, "SkippedOccupied", Inc2) /\ UNCHANGED exc
                      ELSE pc' = "create" /\ UNCHANGED <<exc, count, outcome>>
  /\ UNCHANGED <<srcRoot, src, destRoot, dest, osDeny, loopRaises, cmd, interactive, gi,
                 result, decision, startDest, startRoot, prev, runs, ref, peer, fetch>>

\* one pass of the loop body of install_skills, up to the first
\* filesystem mutation or prompt
InstallSkillsEntry ==
  /\ cmd = "install" /\ pc = "loop" /\ Cur = "skills" /\ todo # <<>>
  /\ LET n == Head(todo)
         d == dest["skills"][n]
     IN  /\ last' = n /\ todo' = Tail(todo)
         /\ typed' = NoLine /\ response' = NoLine
         /\ IF ~is_dir("skills", n)
              THEN UNCHANGED <<pc, exc, count, outcome, probed>>
            ELSE IF ~is_valid_skill("skills", n)
              THEN Record(n, "Invalid", Inc2) /\ UNCHANGED <<exc, probed>>
            ELSE LET ours == is_our_symlink(d, "skills", n) IN
                   /\ probed' = Set(probed, "skills", n, d)
                   /\ IF ours = "RuntimeError"
                        THEN Raise("RuntimeError") /\ UNCHANGED <<count, outcome>>
                      ELSE IF ours = "True"
                        THEN Record(n, "AlreadyInstalled", Inc1) /\ UNCHANGED exc
                      ELSE IF is_symlink(d)
                        THEN IF interactive
                               THEN pc' = "prompt" /\ UNCHANGED <<exc, count, outcome>>
                               ELSE Record(n, "SkippedConflict", Inc2) /\ UNCHANGED exc
                      ELSE IF exists(d)
                        THEN Record(n, "SkippedOccupied", Inc2) /\ UNCHANGED exc
                      ELSE pc' = "create" /\ UNCHANGED <<exc, count, outcome>>
  /\ UNCHANGED <<srcRoot, src, destRoot, dest, osDeny, loopRaises, cmd, interactive, gi,
                 result, decision, startDest, startRoot, prev, runs, ref, peer, fetch>>

\* variant: install_commands never asks; a link that points elsewhere is
\* skipped in interactive mode too
InstallCommandsEntry_NeverAsks ==
  /\ cmd = "install" /\ pc = "loop" /\ Cur = "commands" /\ todo # <<>>
  /\ LET n == Head(todo)
         d == dest["commands"][n]
     IN  /\ last' = n /\ todo' = Tail(todo)
         /\ typed' = NoLine /\ response' = NoLine
         /\ IF n = "README.md"
              THEN UNCHANGED <<pc, exc, count, outcome, probed>>
            ELSE LET ours == is_our_symlink(d, "commands", n) IN
                   /\ probed' = Set(probed, "commands", n, d)
                   /\ IF ours = "RuntimeError"
                        THEN Raise("RuntimeError") /\ UNCHANGED <<count, outcome>>
                      ELSE IF ours = "True"
                        THEN Record(n, "AlreadyInstalled", Inc1) /\ UNCHANGED exc
                      ELSE IF is_symlink(d)
                        THEN Record(n, "SkippedConflict", Inc2) /\ UNCHANGED exc
                      ELSE IF exists(d)
                        THEN Record(n, "SkippedOccupied", Inc2) /\ UNCHANGED exc
                      ELSE pc' = "create" /\ UNCHANGED <<exc, count, outcome>>
  /\ UNCHANGED <<srcRoot, src, destRoot, dest, osDeny, loopRaises, cmd, interactive, gi,
                 result, decision, startDest, startRoot, prev, runs, ref, peer, fetch>>

\* the same for install_commands; README.md is passed over
InstallCommandsEntry ==
  /\ cmd = "install" /\ pc = "loop" /\ Cur = "commands" /\ todo # <<>>
  /\ LET n == Head(todo)
         d == dest["commands"][n]
     IN  /\ last' = n /\ todo' = Tail(todo)
         /\ typed' = NoLine /\ response' = NoLine
         /\ IF n = "README.md"
              THEN UNCHANGED <<pc, exc, count, outcome, probed>>
            ELSE LET ours == is_our_symlink(d, "commands", n) IN
                   /\ probed' = Set(probed, "commands", n, d)
                   /\ IF ours = "RuntimeError"
                        THEN Raise("RuntimeError") /\ UNCHANGED <<count, outcome>>
                      ELSE IF ours = "True"
                        THEN Record(n, "AlreadyInstalled", Inc1) /\ UNCHANGED exc
                      ELSE IF is_symlink(d)
                        THEN IF interactive
                               THEN pc' = "prompt" /\ UNCHANGED <<exc, count, outcome>>
                               ELSE Record(n, "SkippedConflict", Inc2) /\ UNCHANGED exc
                      ELSE IF exists(d)
                        THEN Record(n, "SkippedOccupied", Inc2) /\ UNCHANGED exc
                      ELSE pc' = "create" /\ UNCHANGED <<exc, count, outcome>>
  /\ UNCHANGED <<srcRoot, src, destRoot, dest, osDeny, loopRaises, cmd, interactive, gi,
                 result, decision, startDest, startRoot, prev, runs, ref, peer, fetch>>

\* response = input("Replace? (y/n): ").strip().lower() and the test on it;
\* input() raises EOFError at end of input
Prompt ==
  /\ cmd = "install" /\ pc = "prompt"
  /\ \/ /\ typed' = EOF
        /\ Raise("EOFError")
        /\ UNCHANGED <<response, count, outcome, decision>>
     \/ \E line \in Inputs :
          /\ typed' = line
          /\ response' = lower(strip(line))
          /\ IF IsAffirmative(response')
               THEN /\ pc' = "unlink"
                    /\ decision' = Set(decision, Cur, last, "yes")
                    /\ UNCHANGED <<count, outcome>>
               ELSE /\ Record(last, "SkippedDeclined", Inc2)
                    /\ decision' = Set(decision, Cur, last, "no")
          /\ UNCHANGED exc
  /\ UNCHANGED <<srcRoot, src, destRoot, dest, osDeny, loopRaises, cmd, interactive, gi,
                 todo, last, result, probed, startDest, startRoot, prev, runs, ref, peer, fetch>>

\* target_link.unlink() of the confirmed replacement; not in a try block
InstallUnlink ==
  /\ cmd = "install" /\ pc = "unlink"
  /\ IF dest[Cur][last].kind = "absent"
       THEN Raise("FileNotFoundError") /\ UNCHANGED dest
     ELSE IF osDeny = "unlink"
       THEN Raise("PermissionError") /\ UNCHANGED dest
     ELSE /\ dest' = Set(dest, Cur, last, Absent)
          /\ pc' = "create" /\ UNCHANGED exc
  /\ UNCHANGED <<srcRoot, src, destRoot, osDeny, loopRaises, cmd, interactive, gi, todo,
                 last, count, result, typed, response, outcome, probed,
                 decision, startDest, startRoot, prev, runs, ref, peer, fetch>>

\* create_symlink(source, dest): symlink_to, with OSError turned into False
create_symlink(g, n) ==
  IF osDeny = "create" \/ dest[g][n].kind # "absent" \/ ~destRoot[g]
    THEN FALSE
    ELSE TRUE

\* the two call sites of create_symlink and the counting of its result
InstallCreate ==
  /\ cmd = "install" /\ pc = "create"
  /\ IF create_symlink(Cur, last)
       THEN /\ dest' = Set(dest, Cur, last, Link(SrcPath(Cur, last)))
            /\ Record(last, "Installed", Inc1)
       ELSE /\ UNCHANGED dest
            /\ Record(last, "SkippedFailed", Inc2)
  /\ UNCHANGED <<srcRoot, src, destRoot, osDeny, loopRaises, cmd, interactive, gi, todo,
                 last, result, typed, response, exc, probed, decision,
                 startDest, startRoot, prev, runs, ref, peer, fetch>>

\* return installed, skipped / return removed, skipped / the summary line
LoopEnd ==
  /\ pc = "loop" /\ todo = <<>>
  /\ Return(count)
  /\ typed' = NoLine /\ response' = NoLine
  /\ UNCHANGED <<srcRoot, src, destRoot, dest, osDeny, loopRaises, cmd, interactive, last,
                 exc, outcome, probed, decision, startDest, startRoot, prev, runs, ref, peer, fetch>>


\* ------------------------------------------------------------------------
\* uninstall_skills / uninstall_commands
\* ------------------------------------------------------------------------
\* up to the loop header: a missing destination root returns (0, 0);
\* iterdir() of a missing skills source raises, glob() of a missing
\* commands source is empty
UninstallBegin ==
  /\ cmd = "uninstall" /\ pc = "begin"
  /\ IF ~destRoot[Cur]
       THEN Return(<<0, 0>>) /\ UNCHANGED exc
     ELSE IF Cur = "skills" /\ ~srcRoot[Cur]
       THEN Raise("FileNotFoundError") /\ UNCHANGED <<gi, todo, count, result>>
     ELSE /\ todo' = Listing(Cur)
          /\ count' = <<0, 0>> /\ pc' = "loop"
          /\ UNCHANGED <<gi, result, exc>>
  /\ UNCHANGED <<srcRoot, src, destRoot, dest, osDeny, loopRaises, cmd, interactive, last,
                 typed, response, outcome, probed, decision, startDest, startRoot, prev,
                 runs, ref, peer, fetch>>

\* one pass of the loop body of uninstall_skills, up to the unlink
UninstallSkillsEntry ==
  /\ cmd = "uninstall" /\ pc = "loop" /\ Cur = "skills" /\ todo # <<>>
  /\ LET n == Head(todo)
         d == dest["skills"][n]
     IN  /\ last' = n /\ todo' = Tail(todo)
         /\ IF ~is_dir("skills", n)
              THEN UNCHANGED <<pc, exc, count, outcome, probed>>
            ELSE LET ours == is_our_symlink(d, "skills", n) IN
                   /\ probed' = Set(probed, "skills", n, d)
                   /\ IF ours = "RuntimeError"
                        THEN Raise("RuntimeError") /\ UNCHANGED <<count, outcome>>
                      ELSE IF ours = "True"
                        THEN pc' = "unlink" /\ UNCHANGED <<exc, count, outcome>>
                      ELSE IF is_symlink(d)
                        THEN Record(n, "SkippedElsewhere", Inc2) /\ UNCHANGED exc
                      ELSE IF exists(d)
                        THEN Record(n, "SkippedNotLink", Inc2) /\ UNCHANGED exc
                      ELSE Record(n, "NotInstalled", count) /\ UNCHANGED exc
  /\ UNCHANGED <<srcRoot, src, destRoot, dest, osDeny, loopRaises, cmd, interactive, gi,
                 result, typed, response, decision, startDest, startRoot, prev, runs, ref, peer, fetch>>

\* the same for uninstall_commands; README.md is passed over
UninstallCommandsEntry ==
  /\ cmd = "uninstall" /\ pc = "loop" /\ Cur = "commands" /\ todo # <<>>
  /\ LET n == Head(todo)
         d == dest["commands"][n]
     IN  /\ last' = n /\ todo' = Tail(todo)
         /\ IF n = "README.md"
              THEN UNCHANGED <<pc, exc, count, outcome, probed>>
            ELSE LET ours == is_our_symlink(d, "commands", n) IN
                   /\ probed' = Set(probed, "commands", n, d)
                   /\ IF ours = "RuntimeError"
                        THEN Raise("RuntimeError") /\ UNCHANGED <<count, outcome>>
                      ELSE IF ours = "True"
                        THEN pc' = "unlink" /\ UNCHANGED <<exc, count, outcome>>
                      ELSE IF is_symlink(d)
                        THEN Record(n, "SkippedElsewhere", Inc2) /\ UNCHANGED exc
                      ELSE IF exists(d)
                        THEN Record(n, "SkippedNotLink", Inc2) /\ UNCHANGED exc
                      ELSE Record(n, "NotInstalled", count) /\ UNCHANGED exc
  /\ UNCHANGED <<srcRoot, src, destRoot, dest, osDeny, loopRaises, cmd, interactive, gi,
                 result, typed, response, decision, startDest, startRoot, prev, runs, ref, peer, fetch>>

\* variant: the removal is counted and reported but the link stays
UninstallUnlink_KeepsLink ==
  /\ cmd = "uninstall" /\ pc = "unlink"
  /\ Record(last, "Removed", Inc1)
  /\ UNCHANGED <<srcRoot, src, destRoot, dest, osDeny, loopRaises, cmd,
                 interactive, gi, todo, last, result, typed, response, exc,
                 probed, decision, startDest, startRoot, prev, runs, ref, peer, fetch>>

\* target_link.unlink() and removed += 1; not in a try block
UninstallUnlink ==
  /\ cmd = "uninstall" /\ pc = "unlink"
  /\ IF dest[Cur][last].kind = "absent"
       THEN Raise("FileNotFoundError") /\ UNCHANGED <<dest, count, outcome>>
     ELSE IF osDeny = "unlink"
       THEN Raise("PermissionError") /\ UNCHANGED <<dest, count, outcome>>
     ELSE /\ dest' = Set(dest, Cur, last, Absent)
          /\ Record(last, "Removed", Inc1)
          /\ UNCHANGED exc
  /\ UNCHANGED <<srcRoot, src, destRoot, osDeny, loopRaises, cmd, interactive, gi, todo,
                 last, result, typed, response, probed, decision, startDest,
                 startRoot, prev, runs, ref, peer, fetch>>

\* ------------------------------------------------------------------------
\* check_status
\* ------------------------------------------------------------------------
\* variant: the header creates the destination root as install does
StatusBegin_Mkdir ==
  /\ cmd = "status" /\ pc = "begin"
  /\ IF Cur = "skills" /\ ~srcRoot[Cur]
       THEN Raise("FileNotFoundError") /\ UNCHANGED <<todo, count, destRoot>>
       ELSE /\ todo' = Listing(Cur)
            /\ destRoot' = [destRoot EXCEPT ![Cur] = TRUE]
            /\ count' = <<0, 0>> /\ pc' = "loop"
            /\ UNCHANGED exc
  /\ UNCHANGED <<srcRoot, src, dest, osDeny, loopRaises, cmd, interactive,
                 gi, last, result, typed, response, outcome, probed,
                 decision, startDest, startRoot, prev, runs, ref, peer, fetch>>

\* the loop header of either half of check_status
StatusBegin ==
  /\ cmd = "status" /\ pc = "begin"
  /\ IF Cur = "skills" /\ ~srcRoot[Cur]
       THEN Raise("FileNotFoundError") /\ UNCHANGED <<todo, count>>
       ELSE /\ todo' = Listing(Cur)
            /\ count' = <<0, 0>> /\ pc' = "loop"
            /\ UNCHANGED exc
  /\ UNCHANGED <<srcRoot, src, destRoot, dest, osDeny, loopRaises, cmd, interactive, gi,
                 last, result, typed, response, outcome, probed, decision,
                 startDest, startRoot, prev, runs, ref, peer, fetch>>

\* one pass of either loop body of check_status
StatusEntry ==
  /\ cmd = "status" /\ pc = "loop" /\ todo # <<>>
  /\ LET n == Head(todo)
         d == dest[Cur][n]
         passed == IF Cur = "skills"
                     THEN ~is_dir(Cur, n) \/ ~is_valid_skill(Cur, n)
                     ELSE n = "README.md"
     IN  /\ last' = n /\ todo' = Tail(todo)
         /\ IF passed
              THEN UNCHANGED <<pc, exc, count, outcome, probed>>
            ELSE LET ours == is_our_symlink(d, Cur, n) IN
                   /\ probed' = Set(probed, Cur, n, d)
                   /\ IF ours = "RuntimeError"
                        THEN Raise("RuntimeError") /\ UNCHANGED <<count, outcome>>
                      ELSE IF ours = "True"
                        THEN Record(n, "installed", Inc1) /\ UNCHANGED exc
                      ELSE Record(n, "not installed", Inc2) /\ UNCHANGED exc
  /\ UNCHANGED <<srcRoot, src, destRoot, dest, osDeny, loopRaises, cmd, interactive, gi,
                 result, typed, response, decision, startDest, startRoot, prev, runs, ref, peer, fetch>>

\* ------------------------------------------------------------------------
Next ==
  \/ main_usage
  \/ cmd_install
  \/ cmd_uninstall
  \/ cmd_status
  \/ InstallBegin
  \/ InstallSkillsEntry
  \/ InstallCommandsEntry
  \/ Prompt
  \/ InstallUnlink
  \/ InstallCreate
  \/ UninstallBegin
  \/ UninstallSkillsEntry
  \/ UninstallCommandsEntry
  \/ UninstallUnlink
  \/ StatusBegin
  \/ StatusEntry
  \/ LoopEnd

Spec == Init /\ [][Next]_vars


\* ------------------------------------------------------------------------
\* Properties
\* ------------------------------------------------------------------------
\* the entries install and uninstall count: every directory of the skills
\* source, every *.md file of the commands source but README.md
InCatalog(g, n) ==
  IF g = "skills" THEN is_dir(g, n)
  ELSE src[g][n] # "none" /\ Suffix[n] = ".md" /\ n # "README.md"

SkipOutcomes ==
  {"Invalid", "SkippedConflict", "SkippedOccupied", "SkippedDeclined",
   "SkippedFailed", "SkippedElsewhere", "SkippedNotLink"}

LinkedOutcomes == {"Installed", "AlreadyInstalled"}

NumWith(o, g, S) == Cardinality({n \in Names[g] : o[g][n] \in S})

\* the function of group g has run its loop and returned its counters
Returned(g) == result[g] # <<>> /\ srcRoot[g] /\ destRoot[g]

Own(g, n) == Link(SrcPath(g, n))

\* C1: during an install run, interactive or not and whatever is typed, a
\* catalog entry whose destination was a regular file or directory keeps
\* that destination, its outcome is a skip, and the skipped counter the
\* function returns counts it.
C1_OccupiedKept ==
  cmd = "install" =>
    \A g \in G : \A n \in Names[g] :
      (InCatalog(g, n) /\ startDest[g][n] = Occupied) =>
        /\ dest[g][n] = Occupied
        /\ outcome[g][n] \in SkipOutcomes \cup {"none"}
        /\ Returned(g) =>
             /\ outcome[g][n] \in SkipOutcomes
             /\ result[g][2] = NumWith(outcome, g, SkipOutcomes)

\* an interactive install has finished with an occupied destination in
\* each group, after a prompt was answered with y for another entry
C1_Witness ==
  /\ cmd = "install" /\ interactive /\ pc = "done"
  /\ startDest["skills"]["beta"] = Occupied /\ src["skills"]["beta"] = "skill"
  /\ outcome["skills"]["beta"] = "SkippedOccupied"
  /\ decision["skills"]["alpha"] = "yes"
  /\ outcome["commands"]["plan.md"] = "SkippedOccupied"

\* the second of two install runs, with the mode of the first and, at
\* every prompt shown so far, the answer the first run got
SameInstallAgain ==
  /\ cmd = "install" /\ prev.cmd = "install"
  /\ interactive = prev.interactive
  /\ \A g \in G : \A n \in Names[g] :
       decision[g][n] # "none" => decision[g][n] = prev.decision[g][n]

\* C2: in an install run that repeats the previous install run (same
\* source, mode and answers), no entry is Installed, nothing in the
\* destination trees changes, and once both runs have completed the
\* returned tallies are equal and every entry the first run linked (or
\* found linked) is AlreadyInstalled.
C2_InstallIdempotent ==
  SameInstallAgain =>
    /\ \A g \in G : \A n \in Names[g] : outcome[g][n] # "Installed"
    /\ dest = startDest /\ destRoot = startRoot
    /\ (pc = "done" /\ prev.pc = "done") =>
         /\ result = prev.result
         /\ \A g \in G : \A n \in Names[g] :
              prev.outcome[g][n] \in LinkedOutcomes
                => outcome[g][n] = "AlreadyInstalled"

\* both runs completed; the first created one link, replaced another
\* after a y, and left an occupied destination alone
C2_Witness ==
  /\ SameInstallAgain /\ pc = "done" /\ prev.pc = "done" /\ interactive
  /\ prev.outcome["skills"]["alpha"] = "Installed"
  /\ prev.decision["skills"]["alpha"] = "yes"
  /\ prev.outcome["skills"]["beta"] = "SkippedDeclined"
  /\ prev.outcome["commands"]["plan.md"] = "Installed"
  /\ outcome["skills"]["alpha"] = "AlreadyInstalled"
  /\ outcome["commands"]["plan.md"] = "AlreadyInstalled"

\* C3: in a non-interactive install, an entry probed with a link at its
\* destination that does not resolve to the entry's source keeps that
\* link, is recorded as skipped, and no prompt is reached.
C3_ConflictSkippedUnattended ==
  (cmd = "install" /\ ~interactive) =>
    /\ pc # "prompt"
    /\ \A g \in G : \A n \in Names[g] :
         (probed[g][n].kind = "link" /\ probed[g][n] # Own(g, n)) =>
           /\ dest[g][n] = probed[g][n]
           /\ outcome[g][n] = "SkippedConflict"

\* C4: an uninstall run changes a destination only if the probe found a
\* link resolving to the entry's own source; a destination probed as any
\* other link or as a regular file or directory is unchanged and recorded
\* as skipped.
C4_UninstallOnlyOwnLinks ==
  cmd = "uninstall" =>
    \A g \in G : \A n \in Names[g] :
      /\ dest[g][n] # startDest[g][n] => probed[g][n] = Own(g, n)
      /\ (probed[g][n].kind \in {"link", "file"} /\ probed[g][n] # Own(g, n)) =>
           /\ dest[g][n] = probed[g][n]
           /\ outcome[g][n] \in {"SkippedElsewhere", "SkippedNotLink"}


\* an uninstall run that directly follows an install run
UninstallAfterInstall == cmd = "uninstall" /\ prev.cmd = "install"

C6_StatusMatchesInstall ==
  (cmd = "status" /\ prev.cmd = "install" /\ prev.pc = "done"
     /\ pc = "done") =>
    \A g \in G :
      /\ \A n \in Names[g] :
           InCatalog(g, n) =>
             outcome[g][n] = (IF prev.outcome[g][n] \in LinkedOutcomes
                                THEN "installed" ELSE "not installed")
      /\ result[g] # <<>> /\ result[g][1] = prev.result[g][1]

\* C7: after a line that is not an affirmative answer (empty, end of
\* input, other text) was read at the replace prompt, the entry is
\* recorded as skipped, its link is as probed, and the loop goes on.
C7_NonAffirmativeIsNo ==
  (typed # NoLine /\ ~IsAffirmative(lower(strip(typed)))) =>
    /\ pc = "loop"
    /\ outcome[Cur][last] = "SkippedDeclined"
    /\ dest[Cur][last] = probed[Cur][last]

\* C8: a link creation or removal that the OS denies never ends an
\* install or uninstall run: the run is not stopped by the OS error, so
\* the later entries and the second group are still reached.
C8_DenialConfined ==
  (cmd \in {"install", "uninstall"} /\ osDeny # "none") =>
    ~(pc = "raised" /\ exc = "PermissionError")

\* C9: during an install run, the destination of every entry recorded as
\* skipped is in the state the probe saw (for an entry never probed, the
\* state at the start of the run).
C9_SkipLeavesAsProbed ==
  cmd = "install" =>
    \A g \in G : \A n \in Names[g] :
      outcome[g][n] \in SkipOutcomes =>
        dest[g][n] = (IF probed[g][n].kind = "none"
                        THEN startDest[g][n] ELSE probed[g][n])

\* group g is handled by the running subcommand with a root missing, in
\* one of the combinations C10 names
RootMissing(g) ==
  \/ cmd = "install" /\ ~srcRoot[g]
  \/ cmd \in {"uninstall", "status"} /\ (~srcRoot[g] \/ ~startRoot[g])

\* C10: a group with a missing root never ends the run with an exception,
\* nothing of that group changes, the counts reported for it are zero
\* (for status: the installed count), and the run goes on to the other
\* group.
C10_MissingRootNonFatal ==
  \A g \in G :
    RootMissing(g) =>
      /\ ~(pc = "raised" /\ Cur = g /\ exc = "FileNotFoundError")
      /\ dest[g] = startDest[g] /\ destRoot[g] = startRoot[g]
      /\ result[g] # <<>> =>
           IF cmd = "status" THEN result[g][1] = 0 ELSE result[g] = <<0, 0>>


\* a link the probe cannot resolve: its target is missing or it loops
Unresolvable(d) == d.kind = "link" /\ d.target \in {MissingPath, LoopPath}

\* C11: an entry probed with a link that cannot be resolved is handled as
\* a link pointing elsewhere and never ends the run with an exception:
\* install prompts (interactive) or skips it, uninstall skips it and
\* leaves it, status reports it not installed.
C11_UnresolvableIsElsewhere ==
  \A g \in G : \A n \in Names[g] :
    Unresolvable(probed[g][n]) =>
      /\ ~(pc = "raised" /\ exc = "RuntimeError")
      /\ cmd = "install" =>
           outcome[g][n] \in
             (IF interactive
                THEN {"none", "SkippedDeclined", "Installed", "SkippedFailed"}
                ELSE {"SkippedConflict"})
      /\ cmd = "uninstall" =>
           outcome[g][n] = "SkippedElsewhere" /\ dest[g][n] = probed[g][n]
      /\ cmd = "status" => outcome[g][n] = "not installed"

\* C12: throughout a status run both destination trees, the existence of
\* the destination roots included, are as they were when it started.
C12_StatusReadOnly ==
  cmd = "status" => dest = startDest /\ destRoot = startRoot

\* a status run has completed after an install, with one destination
\* root missing and links of every kind in the other
C12_Witness ==
  /\ cmd = "status" /\ pc = "done" /\ prev.cmd = "install"
  /\ ~destRoot["commands"] /\ srcRoot["commands"]
  /\ outcome["skills"]["alpha"] = "not installed"
  /\ dest["skills"]["alpha"] = Link(MissingPath)
  /\ outcome["skills"]["beta"] = "installed"
  /\ outcome["commands"]["plan.md"] = "not installed"

\* C13: a completed status run has one result for every catalog entry,
\* installed exactly when the destination is a link resolving to the
\* entry's source and not installed otherwise, a skill directory without
\* its marker file included, and its two counts are the numbers of the
\* two results.
C13_StatusPerEntry ==
  (cmd = "status" /\ pc = "done") =>
    \A g \in G :
      /\ \A n \in Names[g] :
           InCatalog(g, n) =>
             outcome[g][n] = (IF dest[g][n] = Own(g, n)
                                THEN "installed" ELSE "not installed")
      /\ result[g] = <<NumWith(outcome, g, {"installed"}),
                       Cardinality({n \in Names[g] :
                          InCatalog(g, n) /\ dest[g][n] # Own(g, n)})>>

\* C14: an invocation that named a subcommand and has ended has exit
\* status 0.
C14_SubcommandExitsZero ==
  (cmd \in {"install", "uninstall", "status"} /\ ExitCode # -1) => ExitCode = 0

\* C19: when an uninstall function has returned its tallies, removed is
\* the number of catalog entries probed with a link resolving to their
\* own source, skipped the number probed with any other link or with a
\* regular file or directory, and an entry probed absent is in neither;
\* with the destination root missing the tallies are (0, 0) and nothing
\* of the group has changed.
C19_UninstallTallies ==
  cmd = "uninstall" =>
    \A g \in G :
      result[g] # <<>> =>
        IF ~startRoot[g]
          THEN /\ result[g] = <<0, 0>>
               /\ dest[g] = startDest[g] /\ destRoot[g] = startRoot[g]
          ELSE /\ \A n \in Names[g] : InCatalog(g, n) <=> probed[g][n].kind # "none"
               /\ result[g][1] =
                    Cardinality({n \in Names[g] : probed[g][n] = Own(g, n)})
               /\ result[g][2] =
                    Cardinality({n \in Names[g] :
                       /\ probed[g][n].kind \in {"link", "file"}
                       /\ probed[g][n] # Own(g, n)})
               /\ \A n \in Names[g] :
                    probed[g][n] = Absent => outcome[g][n] = "NotInstalled"

\* uninstall has completed: one skill link removed, one dangling skill
\* link skipped, an absent command counted nowhere
C19_Witness ==
  /\ cmd = "uninstall" /\ pc = "done"
  /\ probed["skills"]["beta"] = Own("skills", "beta")
  /\ probed["skills"]["alpha"] = Link(MissingPath)
  /\ probed["commands"]["plan.md"] = Absent
  /\ result["skills"] = <<1, 1>> /\ result["commands"] = <<0, 0>>


\* ------------------------------------------------------------------------
\* The worked example: alpha/ with SKILL.md, beta/ without, nothing
\* installed; install, install, uninstall, status
\* ------------------------------------------------------------------------
Script == <<"install", "install", "uninstall", "status">>

ScenarioInit ==
  /\ Init
  /\ srcRoot["skills"]
  /\ src["skills"]["alpha"] = "skill" /\ src["skills"]["beta"] = "dir"
  /\ \A n \in Names["skills"] : dest["skills"][n] = Absent
  /\ osDeny = "none"

\* the next command of the script, once the previous one has ended
ScenarioStep ==
  /\ pc \in {"idle", "done", "raised"}
  /\ runs < Len(Script)
  /\ \E i \in (IF Script[runs + 1] = "install" THEN BOOLEAN ELSE {FALSE}) :
       Dispatch(Script[runs + 1], i)

ScenarioNext ==
  \/ ScenarioStep
  \/ InstallBegin
  \/ InstallSkillsEntry
  \/ InstallCommandsEntry
  \/ Prompt
  \/ InstallUnlink
  \/ InstallCreate
  \/ UninstallBegin
  \/ UninstallSkillsEntry
  \/ UninstallCommandsEntry
  \/ UninstallUnlink
  \/ StatusBegin
  \/ StatusEntry
  \/ LoopEnd

ScenarioSpec == ScenarioInit /\ [][ScenarioNext]_vars

\* C17: in the worked example the first install returns (1, 1) for the
\* skills, with alpha Installed as a link to alpha's source path and
\* beta invalid; the second install changes nothing in the skills
\* destination and returns (1, 1) again; uninstall returns (1, 0) with
\* alpha Removed and absent; status ends normally with alpha reported
\* not installed.
C17_Scenario ==
  /\ (runs = 1 /\ result["skills"] # <<>>) =>
       /\ result["skills"] = <<1, 1>>
       /\ outcome["skills"]["alpha"] = "Installed"
       /\ outcome["skills"]["beta"] = "Invalid"
       /\ dest["skills"]["alpha"] = Link(SrcPath("skills", "alpha"))
       /\ dest["skills"]["beta"] = Absent
  /\ runs = 2 =>
       /\ dest["skills"] = startDest["skills"]
       /\ \A n \in Names["skills"] : outcome["skills"][n] # "Installed"
       /\ result["skills"] # <<>> => result["skills"] = <<1, 1>>
  /\ (runs = 3 /\ result["skills"] # <<>>) =>
       /\ result["skills"] = <<1, 0>>
       /\ outcome["skills"]["alpha"] = "Removed"
       /\ dest["skills"]["alpha"] = Absent
  /\ runs = 4 =>
       /\ pc # "raised"
       /\ pc = "done" => outcome["skills"]["alpha"] = "not installed"
  /\ runs \in 1..3 => ~(pc = "raised" /\ Cur = "skills")

\* the script has run to its end
C17_Witness ==
  /\ runs = 4 /\ pc = "done" /\ cmd = "status"
  /\ outcome["skills"]["alpha"] = "not installed"
  /\ prev.cmd = "uninstall" /\ prev.result["skills"] = <<1, 0>>
  /\ prev.outcome["skills"]["alpha"] = "Removed"
  /\ prev.startDest["skills"]["alpha"] = Link(SrcPath("skills", "alpha"))


\* ------------------------------------------------------------------------
\* A marker file removed between two invocations
\* ------------------------------------------------------------------------
\* after an install has ended, somebody deletes the SKILL.md of a skill
\* whose link this install created
RemoveMarker ==
  /\ pc \in {"done", "raised"} /\ cmd = "install"
  /\ \E n \in Names["skills"] :
       /\ src["skills"][n] = "skill"
       /\ outcome["skills"][n] = "Installed"
       /\ src' = Set(src, "skills", n, "dir")
  /\ UNCHANGED <<srcRoot, destRoot, dest, osDeny, loopRaises, cmd, interactive,
                 pc, gi, todo, last, count, result, typed, response, exc,
                 outcome, probed, decision, startDest, startRoot, prev, runs, ref, peer, fetch>>

MarkerNext == Next \/ RemoveMarker

MarkerSpec == Init /\ [][MarkerNext]_vars

\* the link of skill n was created by the previous install run and the
\* skill has lost its marker file before the current run started (the
\* current run found the link in place, so it is not the run that
\* created it: the marker was not removed after the current run)
Stale(n) ==
  /\ prev.cmd = "install"
  /\ prev.outcome["skills"][n] = "Installed"
  /\ src["skills"][n] = "dir"

\* C18: for a skill that was installed and then lost its marker file,
\* the link is still in place when the next run starts; an uninstall run
\* settles it only as Removed, and when uninstall_skills returns the link
\* is gone and counted in removed; an install run never probes or
\* touches it, settles it only as Invalid, and when install_skills
\* returns it is counted in skipped.
C18_StaleLink ==
  \A n \in Names["skills"] :
    Stale(n) =>
      /\ startDest["skills"][n] = Own("skills", n)
      /\ cmd = "uninstall" =>
           /\ outcome["skills"][n] \in {"none", "Removed"}
           /\ result["skills"] # <<>> =>
                /\ outcome["skills"][n] = "Removed"
                /\ dest["skills"][n] = Absent
                /\ result["skills"][1] = NumWith(outcome, "skills", {"Removed"})
      /\ cmd = "install" =>
           /\ outcome["skills"][n] \in {"none", "Invalid"}
           /\ probed["skills"][n].kind = "none"
           /\ dest["skills"][n] = Own("skills", n)
           /\ result["skills"] # <<>> =>
                /\ outcome["skills"][n] = "Invalid"
                /\ result["skills"][2] = NumWith(outcome, "skills", SkipOutcomes)

\* beta was created by install, lost its marker, and uninstall has
\* completed with beta's link removed
C18_Witness ==
  /\ Stale("beta") /\ cmd = "uninstall" /\ pc = "done"
  /\ prev.outcome["skills"]["beta"] = "Installed"
  /\ outcome["skills"]["beta"] = "Removed"
  /\ dest["skills"]["beta"] = Absent
  /\ result["skills"][1] >= 1


\* ------------------------------------------------------------------------
\* A run terminated half-way and repeated
\* ------------------------------------------------------------------------
\* the run taken as reference: install or uninstall, alone and undisturbed
RefStart ==
  /\ pc = "idle" /\ runs = 0
  /\ \/ \E i \in BOOLEAN : Dispatch("install", i)
     \/ Dispatch("uninstall", FALSE)

\* the run that has ended, as the reference for the runs that follow
RefRecord ==
  [cmd |-> cmd, interactive |-> interactive, pc |-> pc, exc |-> exc,
   gi |-> gi, last |-> last, decision |-> decision, outcome |-> outcome,
   dest |-> dest, destRoot |-> destRoot]

\* the same command line is given again in the destination trees the
\* reference run started from
StartOver ==
  /\ runs = 1 /\ pc \in {"done", "raised"}
  /\ ref' = RefRecord
  /\ dest' = startDest /\ destRoot' = startRoot
  /\ Fresh(cmd, interactive)
  /\ UNCHANGED <<srcRoot, src, osDeny, loopRaises, startDest, startRoot, peer, fetch>>

\* the process is terminated (interrupt signal) between two steps
Interrupt ==
  /\ runs = 2 /\ pc \in {"begin", "loop", "prompt", "unlink", "create"}
  /\ pc' = "killed"
  /\ UNCHANGED <<srcRoot, src, destRoot, dest, osDeny, loopRaises, cmd,
                 interactive, gi, todo, last, count, result, typed, response,
                 exc, outcome, probed, decision, startDest, startRoot, prev,
                 runs, ref, peer, fetch>>

\* the terminated command is run again
Rerun ==
  /\ runs = 2 /\ pc = "killed"
  /\ Dispatch(cmd, interactive)

\* the operator answers the prompt for the entry as in the reference
\* run (end of input included) and as in the terminated run
AsAnswered ==
  /\ ref.decision[Cur][last] # "none" =>
       decision[Cur][last] = ref.decision[Cur][last]
  /\ (ref.pc = "raised" /\ ref.exc = "EOFError"
        /\ ref.gi = gi /\ ref.last = last) => typed = EOF
  /\ (runs = 3 /\ prev.decision[Cur][last] # "none") =>
       decision[Cur][last] = prev.decision[Cur][last]

ResumePrompt == Prompt /\ (runs > 1 => AsAnswered')

ResumeNext ==
  \/ RefStart
  \/ StartOver
  \/ Interrupt
  \/ Rerun
  \/ ResumePrompt
  \/ InstallBegin
  \/ InstallSkillsEntry
  \/ InstallCommandsEntry
  \/ InstallUnlink
  \/ InstallCreate
  \/ UninstallBegin
  \/ UninstallSkillsEntry
  \/ UninstallCommandsEntry
  \/ UninstallUnlink
  \/ LoopEnd

ResumeSpec == Init /\ [][ResumeNext]_vars

\* C16: when the repetition of a terminated install or uninstall run
\* has ended, the destination trees are those the same command left
\* when run without interruption from the same start, and it has ended
\* the same way; throughout the repetition, every entry the terminated
\* run had settled has the destination that run left it with, and the
\* repetition settles it consistently (a created or found link is found
\* again, a removed link is absent).
C16_Resume ==
  runs = 3 =>
    /\ pc \in {"done", "raised"} =>
         /\ dest = ref.dest /\ destRoot = ref.destRoot
         /\ pc = ref.pc
    /\ \A g \in G : \A n \in Names[g] :
         prev.outcome[g][n] # "none" =>
           /\ dest[g][n] = startDest[g][n]
           /\ prev.outcome[g][n] \in LinkedOutcomes =>
                /\ dest[g][n] = Own(g, n)
                /\ outcome[g][n] \in {"none", "AlreadyInstalled"}
           /\ prev.outcome[g][n] = "Removed" =>
                /\ dest[g][n] = Absent
                /\ outcome[g][n] \in {"none", "NotInstalled"}

\* an interactive install was terminated after it had removed the link
\* it was told to replace and before it created its own; the
\* repetition has completed
C16_Witness ==
  /\ runs = 3 /\ pc = "done" /\ cmd = "install" /\ interactive
  /\ prev.pc = "killed" /\ prev.decision["skills"]["alpha"] = "yes"
  /\ prev.outcome["skills"]["alpha"] = "none"
  /\ startDest["skills"]["alpha"] = Absent
  /\ ref.dest["skills"]["alpha"] = Own("skills", "alpha")
  /\ outcome["skills"]["alpha"] = "Installed"
  /\ prev.outcome["commands"]["plan.md"] = "none"
  /\ outcome["commands"]["plan.md"] = "Installed"


\* ------------------------------------------------------------------------
\* Two invocations at the same time
\* ------------------------------------------------------------------------
\* the position of the process that is executing, under the name id
Saved(id) ==
  [id |-> id, cmd |-> cmd, interactive |-> interactive, pc |-> pc,
   gi |-> gi, todo |-> todo, last |-> last, count |-> count,
   result |-> result, typed |-> typed, response |-> response, exc |-> exc,
   outcome |-> outcome, probed |-> probed, decision |-> decision,
   startDest |-> startDest, startRoot |-> startRoot]

\* the name of the process that is executing
Self == IF peer.id = "q" THEN "p" ELSE "q"

\* after the reference run, two processes are started in the
\* destination trees the reference run started from: p with the command
\* line of the reference run, q with install or uninstall
RaceStart ==
  /\ runs = 1 /\ pc \in {"done", "raised"}
  /\ ref' = RefRecord
  /\ dest' = startDest /\ destRoot' = startRoot
  /\ Fresh(cmd, interactive)
  /\ \E c \in {"install", "uninstall"} :
       \E i \in (IF c = "install" THEN BOOLEAN ELSE {FALSE}) :
         peer' = [id |-> "q", cmd |-> c, interactive |-> i, pc |-> "begin",
                  gi |-> 1, todo |-> <<>>, last |-> "none",
                  count |-> <<0, 0>>, result |-> NoResults, typed |-> NoLine,
                  response |-> NoLine, exc |-> "none", outcome |-> NoEntries,
                  probed |-> NoProbes, decision |-> NoEntries,
                  startDest |-> startDest, startRoot |-> startRoot]
  /\ UNCHANGED <<srcRoot, src, osDeny, loopRaises, startDest, startRoot, fetch>>

\* the scheduler gives the processor to the other process; once both
\* have ended, p is the one looked at
Switch ==
  /\ runs = 2 /\ peer.id # "none"
  /\ \/ peer.pc \notin {"done", "raised"}
     \/ pc \in {"done", "raised"} /\ peer.id = "p"
  /\ peer' = Saved(Self)
  /\ cmd' = peer.cmd /\ interactive' = peer.interactive /\ pc' = peer.pc
  /\ gi' = peer.gi /\ todo' = peer.todo /\ last' = peer.last
  /\ count' = peer.count /\ result' = peer.result /\ typed' = peer.typed
  /\ response' = peer.response /\ exc' = peer.exc
  /\ outcome' = peer.outcome /\ probed' = peer.probed
  /\ decision' = peer.decision
  /\ startDest' = peer.startDest /\ startRoot' = peer.startRoot
  /\ UNCHANGED <<srcRoot, src, destRoot, dest, osDeny, loopRaises, prev,
                 runs, ref, fetch>>

\* both processes have ended
RaceOver ==
  /\ runs = 2 /\ peer.id = "q"
  /\ pc \in {"done", "raised"} /\ peer.pc \in {"done", "raised"}

\* the command line of p is given once more, with nothing else running
RaceRerun ==
  /\ RaceOver
  /\ Dispatch(cmd, interactive)

\* p and the later run get the answers of the reference run; q gets any
RacePrompt ==
  Prompt /\ ((runs = 3 \/ (runs = 2 /\ Self = "p")) => AsAnswered')

RaceNext ==
  \/ RefStart
  \/ RaceStart
  \/ Switch
  \/ RaceRerun
  \/ RacePrompt
  \/ InstallBegin
  \/ InstallSkillsEntry
  \/ InstallCommandsEntry
  \/ InstallUnlink
  \/ InstallCreate
  \/ UninstallBegin
  \/ UninstallSkillsEntry
  \/ UninstallCommandsEntry
  \/ UninstallUnlink
  \/ LoopEnd

\* both roots of both groups exist; alpha's destination is in any state,
\* the destinations after it are absent or this repository's links
RaceInit ==
  /\ Init
  /\ \A g \in G : srcRoot[g] /\ destRoot[g]
  /\ src["skills"]["beta"] = "skill"
  /\ dest["skills"]["beta"] \in {Absent, Own("skills", "beta")}
  /\ dest["commands"]["plan.md"] \in {Absent, Own("commands", "plan.md")}
  /\ dest["commands"]["README.md"] = Absent

RaceSpec == RaceInit /\ [][RaceNext]_vars

\* a link that does not resolve to the entry's own source
Foreign(d, g, n) == d.kind = "link" /\ d # Own(g, n)

\* one of the two processes is an interactive install whose operator
\* answered y for the entry
Confirmed(g, n) ==
  \/ cmd = "install" /\ interactive /\ decision[g][n] = "yes"
  \/ peer.cmd = "install" /\ peer.interactive /\ peer.decision[g][n] = "yes"

MaxDiscovered == 2
MaxImap == 2

\* what `gog auth list` may report: up to MaxDiscovered accounts
Discoveries ==
  {[k \in 1..m |-> <<"gog", k>>] : m \in 0..MaxDiscovered}

\* the keys of an entry of imap_accounts in accounts.json that main()
\* reads itself; the file is written by hand and is not validated
ImapKeySets == {{"email", "type"}, {"email"}, {"type"}}

\* what load_imap_accounts() may return: up to MaxImap entries
ImapConfigs ==
  UNION {{[k \in 1..m |-> [email |-> <<"imap", k>>, keys |-> ks[k]]] :
            ks \in [1..m -> ImapKeySets]} : m \in 0..MaxImap}

Range(q) == {q[k] : k \in 1..Len(q)}

\* resolve_accounts: the accounts of --personal and --work, or, when
\* neither is given, the discovered ones
resolve_accounts(f) ==
  LET explicit == (IF f.personal THEN << <<"personal">> >> ELSE <<>>)
                    \o (IF f.work THEN << <<"work">> >> ELSE <<>>)
  IN  IF explicit # <<>> THEN explicit ELSE f.discovered

\* args.naver or (not args.naver and NAVER_CALDAV_USER)
include_naver(f) == f.naver \/ (~f.naver /\ f.naver_user)

naver_email(f) == IF f.naver_user THEN <<"user@naver.com">> ELSE <<"naver">>

\* the JSON objects written by json.dump
ErrorObject ==
  [keys |-> {"error"}, accounts |-> <<>>, data |-> <<>>, errors |-> <<>>]

Output(dataKey, accounts, data, errors) ==
  [keys |-> {"accounts", dataKey} \cup (IF errors # <<>> THEN {"errors"} ELSE {}),
   accounts |-> accounts, data |-> data, errors |-> errors]

\* a run of either script, with its arguments, environment and config
FetchStarts ==
  {f \in [script : {"calendar", "mail"}, pc : {"main"},
          personal : BOOLEAN, work : BOOLEAN, discovered : Discoveries,
          naver : BOOLEAN, naver_user : BOOLEAN,
          imap_accounts : ImapConfigs, accounts : {<<>>}, info : {<<>>},
          data : {<<>>}, errors : {<<>>}, res : {<<>>}, i : {1},
          out : {<<>>}, exit : {-1}] :
     IF f.script = "calendar" THEN f.imap_accounts = <<>>
     ELSE ~f.naver /\ ~f.naver_user}

FetchInit ==
  /\ ToolInit
  /\ \A g \in G : ~srcRoot[g] /\ ~destRoot[g]
  /\ osDeny = "none"
  /\ fetch \in FetchStarts

\* calendar_brief.main up to the loop: no account and no Naver is fatal
calendar_main ==
  /\ fetch.script = "calendar" /\ fetch.pc = "main"
  /\ LET accounts == resolve_accounts(fetch) IN
       IF accounts = <<>> /\ ~include_naver(fetch)
         THEN fetch' = [fetch EXCEPT !.out = Append(@, ErrorObject),
                                     !.exit = 1, !.pc = "exit"]
         ELSE fetch' = [fetch EXCEPT !.accounts = accounts, !.i = 1,
                                     !.pc = "accounts"]
  /\ UNCHANGED toolVars

\* one pass of `for account in accounts`: fetch_events succeeds or raises
calendar_fetch ==
  /\ fetch.script = "calendar" /\ fetch.pc = "accounts"
  /\ fetch.i <= Len(fetch.accounts)
  /\ LET a == fetch.accounts[fetch.i] IN
       \/ fetch' = [fetch EXCEPT !.data = Append(@, a),
                                 !.res = Append(@, <<a, "ok">>), !.i = @ + 1]
       \/ fetch' = [fetch EXCEPT !.errors = Append(@, a),
                                 !.res = Append(@, <<a, "fail">>), !.i = @ + 1]
  /\ UNCHANGED toolVars

\* the Naver CalDAV part after the loop
calendar_naver ==
  /\ fetch.script = "calendar" /\ fetch.pc = "accounts"
  /\ fetch.i > Len(fetch.accounts)
  /\ LET a == naver_email(fetch) IN
       IF ~include_naver(fetch)
         THEN fetch' = [fetch EXCEPT !.pc = "output"]
         ELSE \/ fetch' = [fetch EXCEPT !.data = Append(@, a),
                                       !.accounts = Append(@, a),
                                       !.res = Append(@, <<a, "ok">>),
                                       !.pc = "output"]
              \/ fetch' = [fetch EXCEPT !.errors = Append(@, a),
                                       !.accounts = Append(@, a),
                                       !.res = Append(@, <<a, "fail">>),
                                       !.pc = "output"]
  /\ UNCHANGED toolVars

\* json.dump(output, sys.stdout) and the end of main
calendar_output ==
  /\ fetch.script = "calendar" /\ fetch.pc = "output"
  /\ fetch' = [fetch EXCEPT
       !.out = Append(@, Output("events", fetch.accounts, fetch.data,
                                fetch.errors)),
       !.exit = 0, !.pc = "exit"]
  /\ UNCHANGED toolVars

\* mail_brief.main up to the loops: no account of either kind is fatal
mail_main ==
  /\ fetch.script = "mail" /\ fetch.pc = "main"
  /\ LET gmail_accounts == resolve_accounts(fetch) IN
       IF gmail_accounts = <<>> /\ fetch.imap_accounts = <<>>
         THEN fetch' = [fetch EXCEPT !.out = Append(@, ErrorObject),
                                     !.exit = 1, !.pc = "exit"]
         ELSE fetch' = [fetch EXCEPT
                !.accounts = gmail_accounts, !.i = 1,
                !.pc = IF gmail_accounts = <<>> THEN "imap" ELSE "gmail"]
  /\ UNCHANGED toolVars

\* where main goes after entry i of a loop over q
AfterEntry(q, then) ==
  IF fetch.i < Len(q) THEN fetch.pc
  ELSE IF then = "imap" /\ fetch.imap_accounts = <<>> THEN "output"
  ELSE then

\* one pass of `for account in gmail_accounts`
mail_gmail ==
  /\ fetch.script = "mail" /\ fetch.pc = "gmail"
  /\ LET a == fetch.accounts[fetch.i]
         to == AfterEntry(fetch.accounts, "imap")
         ni == IF to = fetch.pc THEN fetch.i + 1 ELSE 1
     IN
       \/ fetch' = [fetch EXCEPT !.info = Append(@, a),
                                 !.data = Append(@, a),
                                 !.res = Append(@, <<a, "ok">>),
                                 !.i = ni, !.pc = to]
       \/ fetch' = [fetch EXCEPT !.info = Append(@, a),
                                 !.errors = Append(@, a),
                                 !.res = Append(@, <<a, "fail">>),
                                 !.i = ni, !.pc = to]
  /\ UNCHANGED toolVars

\* one pass of `for account in imap_accounts`: account["email"] and
\* account["type"] are read before the try block, so a missing key is a
\* KeyError for the handler around all of main, which writes an error
\* object and exits 1
mail_imap ==
  /\ fetch.script = "mail" /\ fetch.pc = "imap"
  /\ LET a == fetch.imap_accounts[fetch.i]
         to == AfterEntry(fetch.imap_accounts, "output")
         ni == IF to = fetch.pc THEN fetch.i + 1 ELSE 1
     IN
       IF ~({"email", "type"} \subseteq a.keys)
         THEN fetch' = [fetch EXCEPT !.out = Append(@, ErrorObject),
                                     !.exit = 1, !.pc = "exit"]
         ELSE \/ fetch' = [fetch EXCEPT !.info = Append(@, a.email),
                                       !.data = Append(@, a.email),
                                       !.res = Append(@, <<a.email, "ok">>),
                                       !.i = ni, !.pc = to]
              \/ fetch' = [fetch EXCEPT !.info = Append(@, a.email),
                                       !.errors = Append(@, a.email),
                                       !.res = Append(@, <<a.email, "fail">>),
                                       !.i = ni, !.pc = to]
  /\ UNCHANGED toolVars

\* json.dump(output, sys.stdout) and sys.exit(0)
mail_output ==
  /\ fetch.script = "mail" /\ fetch.pc = "output"
  /\ fetch' = [fetch EXCEPT
       !.out = Append(@, Output("messages", fetch.info, fetch.data,
                                fetch.errors)),
       !.exit = 0, !.pc = "exit"]
  /\ UNCHANGED toolVars

FetchNext ==
  \/ calendar_main
  \/ calendar_fetch
  \/ calendar_naver
  \/ calendar_output
  \/ mail_main
  \/ mail_gmail
  \/ mail_imap
  \/ mail_output

FetchSpec == FetchInit /\ [][FetchNext]_vars

\* every account the run resolved, in the order of the output
Resolved(f) ==
  resolve_accounts(f)
    \o [k \in 1..Len(f.imap_accounts) |-> f.imap_accounts[k].email]
    \o (IF f.script = "calendar" /\ include_naver(f)
          THEN <<naver_email(f)>> ELSE <<>>)

\* the accounts whose fetch ended with result r
Fetched(f, r) == {x[1] : x \in {y \in Range(f.res) : y[2] = r}}

\* C20: a fetch script never writes more than one JSON object, and when
\* it has exited it has written exactly one: with no account resolved, an
\* object with the key error; otherwise an object without that key, with
\* the list of all resolved accounts, the data list with the data of every
\* account whose fetch succeeded, and the key errors exactly when some
\* fetch failed, holding one item per failed account; and every resolved
\* account was fetched.
C20_OneJsonObject ==
  /\ Len(fetch.out) <= 1
  /\ (fetch.script # "none" /\ fetch.pc = "exit") =>
       /\ Len(fetch.out) = 1
       /\ LET o == fetch.out[1]
              dataKey == IF fetch.script = "calendar" THEN "events" ELSE "messages"
          IN  IF Resolved(fetch) = <<>>
                THEN o.keys = {"error"}
                ELSE /\ {"accounts", dataKey} \subseteq o.keys
                     /\ "error" \notin o.keys
                     /\ o.accounts = Resolved(fetch)
                     /\ Fetched(fetch, "ok") \cup Fetched(fetch, "fail")
                          = Range(Resolved(fetch))
                     /\ Fetched(fetch, "ok") \subseteq Range(o.data)
                     /\ "errors" \in o.keys <=> Fetched(fetch, "fail") # {}
                     /\ Range(o.errors) = Fetched(fetch, "fail")
                     /\ Len(o.errors) = Cardinality(Fetched(fetch, "fail"))


\* the state the run saw at the destination of an entry: what the probe
\* found, or for an entry not probed what was there when the run started
AsProbed(g, n) ==
  IF probed[g][n].kind = "none" THEN startDest[g][n] ELSE probed[g][n]

\* C21: at every point of an install or uninstall run, a point where it
\* was terminated included, the destination of every entry is either as
\* the run saw it or in the state of the mutation's result: the entry's
\* own link for install, absent for uninstall.
C21_NoIntermediateState ==
  cmd \in {"install", "uninstall"} =>
    \A g \in G : \A n \in Names[g] :
      \/ dest[g][n] = AsProbed(g, n)
      \/ cmd = "install" /\ dest[g][n] = Own(g, n)
      \/ cmd = "uninstall" /\ dest[g][n] = Absent

\* C22: when two runs interleave on an entry so that one removes the
\* link between the other's probe and its remove-link step, the other is
\* not aborted by an exception: its remove-link step never ends the run
\* with FileNotFoundError, so it goes on to its remaining entries. Stated
\* for commands that complete when run alone.
C22_RaceNeverAborts ==
  (runs = 2 /\ ref.pc = "done") =>
    /\ ~(pc = "raised" /\ exc = "FileNotFoundError")
    /\ ~(peer.pc = "raised" /\ peer.exc = "FileNotFoundError")

\* the lines that are the answer y: in either case, whitespace around it
YesLines == {<<"y">>, <<"Y">>, <<" ", "y", " ">>}

\* C23: in interactive mode, at the prompt for a link that points
\* elsewhere, the lines y and Y, with or without whitespace around them,
\* and no other line send install to the removal of the link, and a
\* declined entry is counted as skipped with nothing changed; a link that
\* points elsewhere is changed by install only in that removal, for the
\* entry answered y, after which install goes on to create the link; and
\* when that creation succeeds the entry is counted as installed and its
\* destination is the link to the entry's own source.
C23_OnlyYesReplaces ==
  [][ /\ (pc = "prompt" /\ typed' # EOF) =>
           /\ (typed' \in YesLines) <=> (pc' = "unlink")
           /\ dest' = dest
           /\ pc' # "unlink" =>
                /\ outcome'[Cur][last] = "SkippedDeclined"
                /\ count' = Inc2
      /\ \A g \in G : \A n \in Names[g] :
           ( /\ cmd = "install" /\ cmd' = "install"
             /\ Foreign(dest[g][n], g, n)
             /\ dest'[g][n] # dest[g][n] ) =>
               /\ interactive /\ pc = "unlink" /\ g = Cur /\ n = last
               /\ decision[g][n] = "yes" /\ response = <<"y">>
               /\ dest'[g][n] = Absent /\ pc' = "create"
      /\ (cmd = "install" /\ pc = "create" /\ decision[Cur][last] = "yes") =>
           IF dest'[Cur][last] # dest[Cur][last]
             THEN /\ dest'[Cur][last] = Own(Cur, last)
                  /\ outcome'[Cur][last] = "Installed"
                  /\ count' = Inc1
             ELSE outcome'[Cur][last] = "SkippedFailed"
    ]_vars

\* the operator answered " y " for alpha, whose destination was a link
\* elsewhere; the link was replaced and alpha counted as installed
C23_Witness ==
  /\ cmd = "install" /\ interactive /\ pc = "loop"
  /\ last = "alpha" /\ typed = <<" ", "y", " ">> /\ response = <<"y">>
  /\ Foreign(probed["skills"]["alpha"], "skills", "alpha")
  /\ decision["skills"]["alpha"] = "yes"
  /\ outcome["skills"]["alpha"] = "Installed"
  /\ count = <<1, 0>>
  /\ dest["skills"]["alpha"] = Own("skills", "alpha")

\* a directory of the skills source that does not hold SKILL.md
LacksMarker(n) == src["skills"][n] = "dir"

\* C24: over every step of an install run, for a directory of the skills
\* source that lacks SKILL.md: its destination is not changed whatever it
\* holds, it is not probed, no prompt is shown for it and no answer is
\* recorded for it; its outcome changes only once, to the skip of an
\* invalid entry, adding one to skipped and nothing to installed; and
\* once the loop of install_skills has returned it has been so counted.
C24_NoMarkerNoLink ==
  [][ (cmd = "install" /\ runs' = runs) =>
        \A n \in Names["skills"] : LacksMarker(n) =>
          /\ dest'["skills"][n] = dest["skills"][n]
          /\ probed'["skills"][n].kind = "none"
          /\ decision'["skills"][n] = "none"
          /\ ~(Cur = "skills" /\ last' = n /\ pc' \in {"prompt", "unlink", "create"})
          /\ outcome'["skills"][n] # outcome["skills"][n] =>
               /\ outcome["skills"][n] = "none"
               /\ outcome'["skills"][n] = "Invalid"
               /\ count' = Inc2
          /\ Returned("skills")' => outcome'["skills"][n] = "Invalid"
    ]_vars

\* an interactive install has completed; beta lacks SKILL.md and its
\* destination, a link pointing elsewhere, is still there, never probed
C24_Witness ==
  /\ cmd = "install" /\ interactive /\ pc = "done"
  /\ LacksMarker("beta")
  /\ outcome["skills"]["beta"] = "Invalid"
  /\ result["skills"][2] >= 1
  /\ probed["skills"]["beta"].kind = "none"
  /\ startDest["skills"]["beta"] = Link(ElsewherePath)
  /\ dest["skills"]["beta"] = Link(ElsewherePath)

\* the entries of the group being processed that the loop has yet to take
Pending == {todo[i] : i \in 1..Len(todo)}

\* the entries of the group being processed that the loop has taken
Taken == {n \in Names[Cur] : n \in Range(Listing(Cur)) /\ n \notin Pending}

\* C25: in every run of install, uninstall and status, over every step:
\* the loop takes the next entry only when the one before is finished
\* (no prompt, removal or creation of it is outstanding and the counters
\* hold one unit for every entry settled so far, but for those uninstall
\* found absent, which it does not count); the entry it takes is
\* the one of lowest rank not yet taken, so entries are taken in
\* ascending name order; a probe is made only of the entry being taken,
\* and a prompt, an answer, a change of a destination and a change of an
\* outcome concern only the entry last taken.
C25_OneAtATimeInOrder ==
  [][ (cmd \in {"install", "uninstall", "status"} /\ runs' = runs) =>
        /\ last' # last =>
             /\ pc = "loop" /\ todo # <<>>
             /\ last' = Head(todo) /\ todo' = Tail(todo)
             /\ \A m \in Pending : Rank[last'] <= Rank[m]
             /\ \A m \in Taken : Rank[m] < Rank[last']
             /\ count[1] + count[2] =
                  Cardinality({m \in Names[Cur] :
                                 outcome[Cur][m] \notin {"none", "NotInstalled"}})
        /\ \A g \in G : \A n \in Names[g] :
             /\ probed'[g][n] # probed[g][n] =>
                  g = Cur /\ n = last' /\ last' # last
             /\ ( \/ dest'[g][n] # dest[g][n]
                  \/ decision'[g][n] # decision[g][n]
                  \/ outcome'[g][n] # outcome[g][n] ) =>
                  g = Cur /\ n = last'
        /\ pc' \in {"prompt", "unlink", "create"} => last' \in Names[Cur]
        /\ dest' # dest => last' = last
    ]_vars

\* an interactive install replaced alpha's link on the answer y and
\* counted alpha, and only then probed beta, whose link it is creating
C25_Witness ==
  /\ cmd = "install" /\ interactive /\ pc = "create" /\ last = "beta"
  /\ decision["skills"]["alpha"] = "yes"
  /\ outcome["skills"]["alpha"] = "Installed"
  /\ dest["skills"]["alpha"] = Own("skills", "alpha")
  /\ count = <<1, 0>>
  /\ probed["skills"]["beta"] = Absent
  /\ outcome["skills"]["beta"] = "none"


\* ------------------------------------------------------------------------
\* A commands directory holding README.md and readme.md
\* ------------------------------------------------------------------------
\* the commands source holds readme.md, and README.md and plan.md or not;
\* both source roots exist, the skills are absent or installed, and the
\* OS refuses nothing
CatalogInit ==
  /\ \E T \in SUBSET Names["commands"] :
       "readme.md" \in T /\ ToolInitOn(T)
  /\ fetch = FetchIdle
  /\ \A g \in G : srcRoot[g]
  /\ \A n \in Names["skills"] :
       dest["skills"][n] \in {Absent, Own("skills", n)}
  /\ osDeny = "none" /\ loopRaises

CatalogSpec == CatalogInit /\ [][Next]_vars

\* a run has ended after the loop over the commands source
CommandsDone ==
  /\ pc = "done" /\ cmd \in {"install", "uninstall", "status"}
  /\ cmd = "uninstall" => destRoot["commands"]

\* what a completed run shows of the catalog: the entries it settled are
\* the *.md files of the source but README.md, whichever the command;
\* the counters hold nothing for README.md; and readme.md is installed,
\* removed and reported as any other file is
CatalogAtEnd ==
  CommandsDone =>
    /\ \A n \in Names["commands"] :
         outcome["commands"][n] # "none" <=>
           (src["commands"][n] = "file" /\ n # "README.md")
    /\ result["commands"][1] + result["commands"][2] =
         Cardinality({n \in Names["commands"] \ {"README.md"} :
                        outcome["commands"][n] \notin {"none", "NotInstalled"}})
    /\ (cmd = "install" /\ startDest["commands"]["readme.md"] = Absent)
         => /\ outcome["commands"]["readme.md"] = "Installed"
            /\ dest["commands"]["readme.md"] = Own("commands", "readme.md")
    /\ startDest["commands"]["readme.md"] = Own("commands", "readme.md") =>
         /\ cmd = "install" =>
              outcome["commands"]["readme.md"] = "AlreadyInstalled"
         /\ cmd = "status" => outcome["commands"]["readme.md"] = "installed"
         /\ cmd = "uninstall" =>
              /\ outcome["commands"]["readme.md"] = "Removed"
              /\ dest["commands"]["readme.md"] = Absent

\* C26: install, uninstall and status settle the same entries of the
\* commands source: every *.md file but the one named README.md. Over
\* every step README.md is not probed, prompted for, counted or given
\* an outcome, and what is at its destination (nothing, or a link to it
\* made by hand) stays; readme.md is an ordinary entry.
C26_SameCatalog ==
  [][ /\ dest'["commands"]["README.md"] = dest["commands"]["README.md"]
      /\ probed'["commands"]["README.md"].kind = "none"
      /\ outcome'["commands"]["README.md"] = "none"
      /\ decision'["commands"]["README.md"] = "none"
      /\ (last' = "README.md" /\ runs' = runs) =>
           pc' = "loop" /\ count' = count
      /\ CatalogAtEnd'
    ]_vars

\* README.md and readme.md are both in the commands source and links to
\* both were at the destination; uninstall has removed the link to
\* readme.md and left the one to README.md
C26_Witness ==
  /\ cmd = "uninstall" /\ pc = "done"
  /\ src["commands"]["README.md"] = "file"
  /\ src["commands"]["readme.md"] = "file"
  /\ startDest["commands"]["README.md"] = Own("commands", "README.md")
  /\ dest["commands"]["README.md"] = Own("commands", "README.md")
  /\ outcome["commands"]["README.md"] = "none"
  /\ outcome["commands"]["readme.md"] = "Removed"
  /\ dest["commands"]["readme.md"] = Absent
  /\ prev.cmd = "install" /\ prev.pc = "done"
  /\ prev.outcome["commands"]["README.md"] = "none"
  /\ prev.outcome["commands"]["readme.md"] = "AlreadyInstalled"


\* the entries of group g whose destination is the link to their source
LinkedCorrect(g) == {n \in Names[g] : InCatalog(g, n) /\ dest[g][n] = Own(g, n)}

\* the number of entries install_skills / install_commands iterates over
CatalogSize(g) == Cardinality({n \in Names[g] : InCatalog(g, n)})

\* C27 as stated: when an install run has completed, in each group
\* installed + skipped is the number of catalog entries and installed is
\* the number of catalog entries whose destination is the link to their
\* source.
C27_AsStated ==
  (cmd = "install" /\ pc = "done") =>
    \A g \in G :
      /\ result[g][1] + result[g][2] = CatalogSize(g)
      /\ result[g][1] = Cardinality(LinkedCorrect(g))

\* C27, amended: when an install run has completed, in each group every
\* catalog entry has one outcome, installed counts the entries installed
\* or found installed, skipped counts the skipped ones, so installed +
\* skipped is the number of catalog entries; and installed is the number
\* of entries other than directories lacking SKILL.md whose destination
\* is the link to their source.
C27_CountConservation ==
  (cmd = "install" /\ pc = "done") =>
    \A g \in G :
      /\ \A n \in Names[g] :
           IF InCatalog(g, n)
             THEN outcome[g][n] \in LinkedOutcomes \cup SkipOutcomes
             ELSE outcome[g][n] = "none"
      /\ result[g][1] = NumWith(outcome, g, LinkedOutcomes)
      /\ result[g][2] = NumWith(outcome, g, SkipOutcomes)
      /\ result[g][1] + result[g][2] = CatalogSize(g)
      /\ result[g][1] =
           Cardinality({n \in LinkedCorrect(g) : g = "skills" => ~LacksMarker(n)})

\* install has completed: alpha was installed, and beta, a directory
\* without SKILL.md whose link was still at the destination, was skipped
C27_Witness ==
  /\ cmd = "install" /\ pc = "done"
  /\ outcome["skills"]["alpha"] = "Installed"
  /\ LacksMarker("beta") /\ outcome["skills"]["beta"] = "Invalid"
  /\ dest["skills"]["beta"] = Own("skills", "beta")
  /\ result["skills"] = <<1, 1>>
  /\ outcome["commands"]["plan.md"] = "SkippedOccupied"
  /\ result["commands"] = <<0, 1>>


\* C28: over every step of a run of install --yes, nothing that exists
\* at a destination is removed or changed: a destination changes only
\* from absent to the link to its own entry's source, a destination root
\* changes only by being created, and the source trees do not change.
C28_UnattendedOnlyAdds ==
  [][ (cmd = "install" /\ ~interactive /\ runs' = runs) =>
        /\ \A g \in G : \A n \in Names[g] :
             dest'[g][n] # dest[g][n] =>
               /\ dest[g][n] = Absent /\ startDest[g][n] = Absent
               /\ dest'[g][n] = Own(g, n)
               /\ g = Cur /\ n = last /\ InCatalog(g, n)
        /\ \A g \in G : destRoot'[g] # destRoot[g] =>
             destRoot'[g] /\ g = Cur /\ srcRoot[g]
        /\ UNCHANGED <<srcRoot, src>>
    ]_vars

\* install --yes has completed: it created the commands destination
\* root and the link of plan.md in it, created alpha's link, and left
\* the link that pointed elsewhere at beta's destination
C28_Witness ==
  /\ cmd = "install" /\ ~interactive /\ pc = "done"
  /\ ~startRoot["commands"] /\ destRoot["commands"]
  /\ outcome["commands"]["plan.md"] = "Installed"
  /\ dest["commands"]["plan.md"] = Own("commands", "plan.md")
  /\ startDest["skills"]["alpha"] = Absent
  /\ dest["skills"]["alpha"] = Own("skills", "alpha")
  /\ startDest["skills"]["beta"] = Link(ElsewherePath)
  /\ outcome["skills"]["beta"] = "SkippedConflict"
  /\ dest["skills"]["beta"] = Link(ElsewherePath)


\* an invocation has ended, by returning or by an exception
Ended(p) == p \in {"done", "raised"}

\* C29: when uninstall has run twice in succession, the second run
\* changed nothing in the filesystem and, when both completed, returned
\* removed = 0 and the skipped count of the first in each group; and
\* after any uninstall run that was not refused a removal, no catalog
\* entry's destination is the link to its source.
C29_UninstallIdempotent ==
  (cmd = "uninstall" /\ Ended(pc)) =>
    /\ (prev.cmd = "uninstall" /\ Ended(prev.pc)) =>
         /\ dest = startDest /\ destRoot = startRoot
         /\ (pc = "done" /\ prev.pc = "done") =>
              \A g \in G : /\ result[g][1] = 0
                            /\ result[g][2] = prev.result[g][2]
    /\ exc # "PermissionError" => \A g \in G : LinkedCorrect(g) = {}


\* the state of a destination as the entry (g, n) sees it: Absent,
\* LinkedCorrect, LinkedElsewhere (with the link's target) or Occupied
DestState(d, g, n) ==
  IF d = Absent THEN [state |-> "Absent", target |-> <<>>]
  ELSE IF d = Own(g, n) THEN [state |-> "LinkedCorrect", target |-> <<>>]
  ELSE IF d.kind = "link" THEN [state |-> "LinkedElsewhere", target |-> d.target]
  ELSE [state |-> "Occupied", target |-> <<>>]

\* outcomes that add one to the first counter (installed / removed)
FirstCounted == {"Installed", "AlreadyInstalled", "Removed"}

\* C30: in a run of install or of uninstall, a valid skill and a command
\* file whose destinations were probed in the same state, and which were
\* not given different answers, end with the same outcome and with their
\* destinations in the same state; in both groups the counters are the
\* same function of the outcomes (the first counts the entries installed,
\* found installed or removed, the second the skipped ones); and in both
\* groups an entry ends the run by an exception under the same
\* conditions on the probed state, the mode and the environment.
C30_SamePerEntryMachine ==
  cmd \in {"install", "uninstall"} =>
    /\ \A a \in Names["skills"] : \A c \in Names["commands"] :
         ( /\ is_valid_skill("skills", a) /\ InCatalog("commands", c)
           /\ outcome["skills"][a] # "none" /\ outcome["commands"][c] # "none"
           /\ DestState(probed["skills"][a], "skills", a)
                = DestState(probed["commands"][c], "commands", c)
           /\ \/ decision["skills"][a] = decision["commands"][c]
              \/ "none" \in {decision["skills"][a], decision["commands"][c]} )
         => /\ outcome["skills"][a] = outcome["commands"][c]
            /\ decision["skills"][a] = decision["commands"][c]
            /\ DestState(dest["skills"][a], "skills", a)
                 = DestState(dest["commands"][c], "commands", c)
    /\ \A g \in G :
         LET c == IF result[g] # <<>> THEN result[g]
                  ELSE IF g = Cur THEN count ELSE <<0, 0>>
         IN  /\ c[1] = NumWith(outcome, g, FirstCounted)
             /\ c[2] = NumWith(outcome, g, SkipOutcomes)
    /\ (pc = "raised" /\ last \in Names[Cur] /\ probed[Cur][last].kind # "none") =>
         LET d == probed[Cur][last] IN
           /\ outcome[Cur][last] = "none"
           /\ exc = "RuntimeError" <=> (d = Link(LoopPath) /\ loopRaises)
           /\ exc = "EOFError" <=>
                (cmd = "install" /\ interactive /\ typed = EOF
                   /\ Foreign(d, Cur, last) /\ ~(d = Link(LoopPath) /\ loopRaises))
           /\ exc = "PermissionError" <=>
                ( /\ osDeny = "unlink"
                  /\ IF cmd = "uninstall" THEN d = Own(Cur, last)
                       ELSE decision[Cur][last] = "yes" )
           /\ exc \in {"RuntimeError", "EOFError", "PermissionError"}

\* an interactive install has completed; the destinations of alpha and
\* of plan.md were links to the same other place, both replacements
\* were confirmed and both entries were installed
C30_Witness ==
  /\ cmd = "install" /\ interactive /\ pc = "done"
  /\ probed["skills"]["alpha"] = Link(ElsewherePath)
  /\ probed["commands"]["plan.md"] = Link(ElsewherePath)
  /\ decision["skills"]["alpha"] = "yes"
  /\ decision["commands"]["plan.md"] = "yes"
  /\ outcome["skills"]["alpha"] = "Installed"
  /\ outcome["commands"]["plan.md"] = "Installed"
  /\ dest["skills"]["alpha"] = Own("skills", "alpha")
  /\ dest["commands"]["plan.md"] = Own("commands", "plan.md")
====
